---- MODULE Spec2Model ----
(***************************************************************************)
(* A model of ofxCGAL (src/src/ofxCGAL.cpp): six point-cloud stages that   *)
(* orchestrate CGAL point-set-processing primitives over containers owned  *)
(* by the caller.                                                          *)
(*                                                                         *)
(* Representation.  A Point_3 is one integer coordinate (a cloud on a      *)
(* line), a normal is a sign, FT values are fixed-point numbers in         *)
(* thousandths.  The claims checked here are about container structure     *)
(* (length, order, membership), control flow and what the caller observes. *)
(*                                                                         *)
(* The CGAL primitives are not part of the repository.  Each one is an     *)
(* operator named after the primitive, modelled from the primitive's       *)
(* documented contract and algorithm; whatever the contract leaves open    *)
(* (container iteration order, normal signs, solver convergence, whether   *)
(* the build keeps CGAL's precondition checks) is a nondeterministic       *)
(* choice made by the action that calls it.                                *)
(***************************************************************************)
EXTENDS Integers, Sequences, FiniteSets, TLC

VARIABLES points, point_vectors, polyhedron, call, pre, trace

vars == <<points, point_vectors, polyhedron, call, pre, trace>>

\* Bounds of the model.
MaxLen == 3
MaxCoord == 2
MaxK == 2
MaxIter == 2
MaxVertices == 1
MaxMeshes == 2

\* Poisson options, ofxCGAL.cpp:110-112.  sm_distance is 0.375, in thousandths.
sm_angle == 20
sm_radius == 30
sm_distance == 375
\* knn of the spacing computed inside reconstructPoissonSurface, ofxCGAL.cpp:130.
spacing_knn == 6

Point_3 == 0..MaxCoord
PointList == UNION {[1..n -> Point_3] : n \in 0..MaxLen}
Neighbors == 1..MaxK
Percentages == {0, 1, 5, 25, 33, 50, 67, 75, 100}
CellSizes == {-1, 0, 1, 2}
Iters == -1..MaxIter

Min(a, b) == IF a <= b THEN a ELSE b
Abs(a) == IF a < 0 THEN -a ELSE a
SqDist(p, q) == (p - q) * (p - q)
Dist(p, q) == Abs(p - q)

RECURSIVE SumSeq(_)
SumSeq(s) == IF s = <<>> THEN 0 ELSE Head(s) + SumSeq(Tail(s))

\* The elements of s at the indices idx, in the order of idx.
Pick(s, idx) == [j \in 1..Len(idx) |-> s[idx[j]]]

\* The indices of s whose element satisfies keep, ascending.
RECURSIVE IdxWhere(_, _, _)
IdxWhere(n, keep, m) ==
    IF m > n THEN <<>>
    ELSE (IF keep[m] THEN <<m>> ELSE <<>>) \o IdxWhere(n, keep, m + 1)

BagOfSeq(s) == [v \in {s[i] : i \in DOMAIN s} |-> Cardinality({i \in DOMAIN s : s[i] = v})]

Perms(n) == {f \in [1..n -> 1..n] : \A i, j \in 1..n : i # j => f[i] # f[j]}

\* Stable insertion sort of the indices 1..m by keys (equal keys keep index order).
RECURSIVE InsertByKey(_, _, _)
InsertByKey(s, i, keys) ==
    IF s = <<>> THEN <<i>>
    ELSE IF keys[Head(s)] <= keys[i] THEN <<Head(s)>> \o InsertByKey(Tail(s), i, keys)
    ELSE <<i>> \o s

RECURSIVE SortUpTo(_, _)
SortUpTo(keys, m) == IF m = 0 THEN <<>> ELSE InsertByKey(SortUpTo(keys, m - 1), m, keys)

(***************************************************************************)
(* CGAL k-nearest-neighbour search: the query asks for k+1 points (the     *)
(* query point itself is among them) and gets what the cloud holds.        *)
(***************************************************************************)
KNearest(pts, q, k) ==
    LET keys == [j \in 1..Len(pts) |-> SqDist(pts[q], pts[j])]
    IN  SubSeq(SortUpTo(keys, Len(pts)), 1, Min(k + 1, Len(pts)))

\* Sum of squared distances to the neighbourhood (the average times its size,
\* which is the same for every point of one cloud).
KnnSqDistance(pts, q, k) ==
    LET nb == KNearest(pts, q, k)
    IN  SumSeq([j \in 1..Len(nb) |-> SqDist(pts[q], pts[nb[j]])])

\* A CGAL primitive's precondition on its neighbourhood size and its range.
KnnPrecondition(pts, k) == Len(pts) > 0 /\ k >= 2

(***************************************************************************)
(* A primitive of the erase-remove family permutes the range and returns   *)
(* an iterator.  Its result here: order, the permutation (the j-th element *)
(* of the range after the call is the order[j]-th element before it), and  *)
(* first, the 1-based position of the returned iterator.                   *)
(***************************************************************************)
Removed(r) == {r.order[j] : j \in r.first..Len(r.order)}
Unmarked(r) == IdxWhere(Len(r.order), [i \in 1..Len(r.order) |-> i \notin Removed(r)], 1)

\* The other end of the range erased: container.erase(container.begin(), it).
EraseFromBegin(s, first) == SubSeq(s, first, Len(s))

\* The iterator taken one too far: container.erase(it + 1, container.end()).
EraseAfter(s, first) == SubSeq(s, 1, Min(first, Len(s)))

\* container.erase(it, container.end()), it at the 1-based position first.
EraseToEnd(s, first) == SubSeq(s, 1, first - 1)

(***************************************************************************)
(* CGAL::remove_outliers: sorts the range by score (a multimap from the    *)
(* average squared distance to the k nearest neighbours to the point) and  *)
(* returns the iterator after the (100 - percentage)% best points.         *)
(*   first_index_to_remove = int(double(n) * ((100.0 - percentage)/100.0)) *)
(* The product is computed in doubles: when it is an integer in exact      *)
(* arithmetic the truncation may land one below it (rounded = TRUE).       *)
(***************************************************************************)
InexactProduct(n, percentage) ==
    /\ (n * (100 - percentage)) % 100 = 0
    /\ percentage > 0 /\ percentage < 100 /\ n > 0

first_index_to_remove(n, percentage, rounded) ==
    LET exact == (n * (100 - percentage)) \div 100
    IN  IF rounded /\ InexactProduct(n, percentage) THEN exact - 1 ELSE exact

remove_outliers(pts, k, percentage, rounded) ==
    LET n      == Len(pts)
        scores == [q \in 1..n |-> KnnSqDistance(pts, q, k)]
    IN  [order  |-> SortUpTo(scores, n),
         first  |-> Min(first_index_to_remove(n, percentage, rounded), n) + 1,
         scores |-> scores]

(***************************************************************************)
(* CGAL::grid_simplify_point_set: inserts the points, in input order, in a *)
(* set whose elements are equal when they lie in the same cell of the grid *)
(* of side epsilon (cell = floor(coordinate / epsilon)); a point whose     *)
(* insertion fails goes to points_to_remove.  The range becomes the set's  *)
(* content, in the set's iteration order (sorted by cell in the releases   *)
(* that use an ordered set, hash order in those that use a hash set), then *)
(* points_to_remove.                                                       *)
(*   inserted[i]: the insertion of the i-th point succeeded                *)
(*   perm: the set's iteration order over the inserted points              *)
(***************************************************************************)
Cell(x, epsilon) == x \div epsilon

\* The outcomes of the insertions.  With epsilon = 0 the cell is floor(x/0.0),
\* infinite or NaN, and the set's comparisons are undefined: any outcome that
\* keeps the first point.
InsertionOutcomes(pts, epsilon) ==
    IF epsilon # 0
    THEN {[i \in 1..Len(pts) |->
             \A j \in 1..(i - 1) : Cell(pts[j], epsilon) # Cell(pts[i], epsilon)]}
    ELSE {f \in [1..Len(pts) -> BOOLEAN] : Len(pts) > 0 => f[1]}

IterationOrders(inserted) == Perms(Cardinality({i \in DOMAIN inserted : inserted[i]}))

grid_simplify_point_set(pts, inserted, perm) ==
    LET n       == Len(pts)
        kept    == IdxWhere(n, inserted, 1)
        removed == IdxWhere(n, [i \in 1..n |-> ~inserted[i]], 1)
    IN  [order |-> [j \in 1..Len(kept) |-> kept[perm[j]]] \o removed,
         first |-> Len(kept) + 1]

(***************************************************************************)
(* CGAL::jet_smooth_point_set: one pass that moves every point onto the    *)
(* surface fitted to its neighbourhood, all neighbourhoods taken from the  *)
(* positions before the pass.  On a line the fitted value is the mean of   *)
(* the neighbourhood.  The range is written in place: no insert, no erase. *)
(***************************************************************************)
jet_smooth_point_set(pts, k) ==
    [q \in 1..Len(pts) |->
        LET nb == KNearest(pts, q, k)
        IN  SumSeq(Pick(pts, nb)) \div Len(nb)]

\* The loop with its bound off by one: for (int k=0; k<=iter; k++).
RECURSIVE SmoothPassesInclusive(_, _, _, _)
SmoothPassesInclusive(pts, nb_neighbors, iter, k) ==
    IF k <= iter
    THEN SmoothPassesInclusive(jet_smooth_point_set(pts, nb_neighbors), nb_neighbors,
                               iter, k + 1)
    ELSE [points |-> pts, passes |-> k]

\* for (int k=0; k<iter; k++) jet_smooth_point_set(...)
RECURSIVE SmoothPasses(_, _, _, _)
SmoothPasses(pts, nb_neighbors, iter, k) ==
    IF k < iter
    THEN SmoothPasses(jet_smooth_point_set(pts, nb_neighbors), nb_neighbors, iter, k + 1)
    ELSE [points |-> pts, passes |-> k]

(***************************************************************************)
(* CGAL::compute_average_spacing: the mean over the points of the mean     *)
(* distance to the neighbourhood, in thousandths.  -1 stands for the NaN   *)
(* of an empty range.                                                      *)
(***************************************************************************)
compute_average_spacing(pts, k) ==
    LET n    == Len(pts)
        c    == Min(k + 1, n)
        dsum == [q \in 1..n |->
                    SumSeq([j \in 1..c |-> Dist(pts[q], pts[KNearest(pts, q, k)[j]])])]
    IN  IF n = 0 THEN -1 ELSE (1000 * SumSeq(dsum)) \div (n * c)

(***************************************************************************)
(* Oriented points: PointVectorPair = (first: Point_3, second: Vector_3).  *)
(* A normal is a sign.  A default-constructed pair holds indeterminate     *)
(* values, written (-1, 0): neither a position nor a normal.               *)
(***************************************************************************)
Normals == {-1, 1}
DefaultPair == [first |-> -1, second |-> 0]
Positions(pv) == [i \in 1..Len(pv) |-> pv[i].first]

\* A resize that only grows the container.
ResizeGrowOnly(s, n) ==
    IF Len(s) >= n THEN s ELSE s \o [i \in 1..(n - Len(s)) |-> DefaultPair]

\* point_vectors.resize(points.size())
Resize(s, n) ==
    IF Len(s) >= n THEN SubSeq(s, 1, n) ELSE s \o [i \in 1..(n - Len(s)) |-> DefaultPair]

\* for (int i=0; i<points.size(); i++) point_vectors[i].first = points[i];
\* i is the number of elements already copied.
RECURSIVE CopyPositions(_, _, _)
CopyPositions(pv, pts, i) ==
    IF i < Len(pts)
    THEN CopyPositions([pv EXCEPT ![i + 1].first = pts[i + 1]], pts, i + 1)
    ELSE pv

(***************************************************************************)
(* CGAL::pca_estimate_normals: writes the normal of every element, the     *)
(* direction of least variance of its neighbourhood; its sign is arbitrary *)
(* (normals, chosen by the caller of this operator).                       *)
(***************************************************************************)
pca_estimate_normals(pv, normals) ==
    [i \in 1..Len(pv) |-> [pv[i] EXCEPT !.second = normals[i]]]

(***************************************************************************)
(* CGAL::mst_orient_normals: orients the normal of the highest point       *)
(* upwards and propagates the orientation along a minimum spanning tree of *)
(* the neighbour graph.  The range becomes the points with an oriented     *)
(* normal, in input order, then the others, in input order; the iterator   *)
(* returned is the first of the others.  Which points the propagation      *)
(* fails to reach is its outcome (unoriented); the highest point, where it *)
(* starts, is always oriented.                                             *)
(***************************************************************************)
SourceIdx(pv) ==
    CHOOSE i \in 1..Len(pv) :
        /\ \A j \in 1..Len(pv) : pv[j].first <= pv[i].first
        /\ \A j \in 1..(i - 1) : pv[j].first < pv[i].first

OrientationOutcomes(pv) ==
    {u \in [1..Len(pv) -> BOOLEAN] : Len(pv) > 0 => ~u[SourceIdx(pv)]}

mst_orient_normals(pv, unoriented) ==
    LET n     == Len(pv)
        done  == IdxWhere(n, [i \in 1..n |-> ~unoriented[i]], 1)
        left  == IdxWhere(n, unoriented, 1)
        order == done \o left
    IN  [order |-> order,
         first |-> Len(done) + 1,
         unoriented |-> unoriented,
         range |-> [j \in 1..n |->
                      IF j <= Len(done) THEN [pv[order[j]] EXCEPT !.second = 1]
                      ELSE pv[order[j]]]]

\* The erase done whatever trim says.
TrimAlways(range, first, trim) == EraseToEnd(range, first)

\* if (trim) points.erase(unoriented_points_begin, points.end());
Trim(range, first, trim) == IF trim THEN EraseToEnd(range, first) ELSE range

(***************************************************************************)
(* reconstructPoissonSurface.                                              *)
(***************************************************************************)
\* convert(point_vectors, points): the oriented cloud copied to a PointWNList.
convert(pv) == [i \in 1..Len(pv) |-> [position |-> pv[i].first, normal |-> pv[i].second]]

\* The criteria with the spacing left out of the two relative bounds.
CriteriaUnscaled(average_spacing) ==
    [angle |-> sm_angle, radius |-> sm_radius, distance |-> sm_distance]

\* Surface_mesh_default_criteria_3 criteria(sm_angle, sm_radius*average_spacing,
\*                                          sm_distance*average_spacing)
\* radius in thousandths, distance in millionths.
Criteria(average_spacing) ==
    [angle    |-> sm_angle,
     radius   |-> sm_radius * average_spacing,
     distance |-> sm_distance * average_spacing]

\* What the caller of reconstructPoissonSurface receives from
\* "return EXIT_FAILURE;" or from the end of the body: the function is void,
\* a build that accepts the statement drops its value.
VoidReturn(value) == "none"

\* CGAL::output_surface_facets_to_polyhedron(c2t3, polyhedron): the facets of
\* a triangulation of nv vertices added to the polyhedron.
output_surface_facets_to_polyhedron(mesh, nv) == Append(mesh, [vertices |-> nv])

(***************************************************************************)
(* State.                                                                  *)
(*   points, point_vectors, polyhedron: the caller's containers            *)
(*   call:  the last call: op, args, and reported, what the caller gets    *)
(*          back from it ("none": a plain return of a void function);      *)
(*          repeated: it repeats the call before it                        *)
(*   pre:   the containers as they were when the last call began           *)
(*   trace: what the last call did inside                                  *)
(***************************************************************************)
Snapshot == [points |-> points, point_vectors |-> point_vectors, polyhedron |-> polyhedron]

\* An output container left over from an earlier use.
StaleVectors == <<[first |-> MaxCoord, second |-> -1]>>

NoCall == [op |-> "init", args |-> <<>>, reported |-> "none", repeated |-> FALSE]

Init ==
    /\ points \in PointList
    /\ point_vectors = StaleVectors
    /\ polyhedron = <<>>
    /\ call = NoCall
    /\ pre = [points |-> points, point_vectors |-> StaleVectors, polyhedron |-> <<>>]
    /\ trace = [step |-> "none"]

\* The stages in the pipeline's canonical order.
Rank(op) ==
    CASE op = "init" -> 0
      [] op = "removeOutliers" -> 1
      [] op = "simplifyCloud" -> 2
      [] op = "smoothCloud" -> 3
      [] op = "computeAverageSpacing" -> 4
      [] op = "estimateNormals" -> 5
      [] op = "orientNormals" -> 6
      [] op = "reconstructPoissonSurface" -> 7

\* The caller runs a subset of the stages, forward.
Forward(op) == Rank(call.op) < Rank(op)

\* A CGAL precondition that fails in a build that checks it: the exception
\* leaves the primitive before it has touched its range.
Thrown(op, args) ==
    /\ call' = [op |-> op, args |-> args, reported |-> "Precondition_exception",
                repeated |-> FALSE]
    /\ pre' = Snapshot
    /\ trace' = [step |-> "thrown"]

Returned(op, args, repeated) ==
    /\ call' = [op |-> op, args |-> args, reported |-> "none", repeated |-> repeated]
    /\ pre' = Snapshot

\* The two numeric arguments passed in each other's place.
OutliersOfSwapped(pts, removed_percentage, nb_neighbors, rounded) ==
    remove_outliers(pts, removed_percentage, nb_neighbors, rounded)

\* CGAL::remove_outliers(points.begin(), points.end(), Identity_property_map,
\*                       nb_neighbors, removed_percentage)
OutliersOf(pts, removed_percentage, nb_neighbors, rounded) ==
    remove_outliers(pts, nb_neighbors, removed_percentage, rounded)

\* void removeOutliers(PointList&, float removed_percentage, int nb_neighbors)
removeOutliers(removed_percentage, nb_neighbors) ==
    LET args == [removed_percentage |-> removed_percentage, nb_neighbors |-> nb_neighbors]
    IN  /\ Forward("removeOutliers")
        /\ \/ /\ ~KnnPrecondition(points, nb_neighbors)
              /\ Thrown("removeOutliers", args)
              /\ UNCHANGED points
           \/ \E rounded \in {FALSE, InexactProduct(Len(points), removed_percentage)} :
                LET r == OutliersOf(points, removed_percentage, nb_neighbors, rounded)
                IN  /\ points' = EraseToEnd(Pick(points, r.order), r.first)
                    /\ trace' = r
                    /\ Returned("removeOutliers", args, FALSE)
        /\ UNCHANGED <<point_vectors, polyhedron>>

\* void simplifyCloud(PointList&, float cell_size)
simplifyCloud(cell_size) ==
    LET args == [cell_size |-> cell_size]
        again == /\ call.op = "simplifyCloud"
                 /\ call.reported = "none"
                 /\ ~call.repeated
                 /\ call.args.cell_size = cell_size
    IN  /\ Forward("simplifyCloud") \/ again
        /\ \/ /\ cell_size <= 0
              /\ Thrown("simplifyCloud", args)
              /\ UNCHANGED points
           \/ \E inserted \in InsertionOutcomes(points, cell_size) :
              \E perm \in IterationOrders(inserted) :
                LET r == grid_simplify_point_set(points, inserted, perm)
                IN  /\ points' = EraseToEnd(Pick(points, r.order), r.first)
                    /\ trace' = r
                    /\ Returned("simplifyCloud", args, again)
        /\ UNCHANGED <<point_vectors, polyhedron>>

\* void smoothCloud(PointList&, int nb_neighbors, int iter)
smoothCloud(nb_neighbors, iter) ==
    LET args == [nb_neighbors |-> nb_neighbors, iter |-> iter]
    IN  /\ Forward("smoothCloud")
        /\ \/ /\ 0 < iter
              /\ ~KnnPrecondition(points, nb_neighbors)
              /\ Thrown("smoothCloud", args)
              /\ UNCHANGED points
           \/ LET r == SmoothPasses(points, nb_neighbors, iter, 0)
              IN  /\ points' = r.points
                  /\ trace' = [passes |-> r.passes]
                  /\ Returned("smoothCloud", args, FALSE)
        /\ UNCHANGED <<point_vectors, polyhedron>>

\* FT computeAverageSpacing(PointList&, int nb_neighbors)
computeAverageSpacing(nb_neighbors) ==
    LET args == [nb_neighbors |-> nb_neighbors]
    IN  /\ Forward("computeAverageSpacing")
        /\ \/ /\ ~KnnPrecondition(points, nb_neighbors)
              /\ Thrown("computeAverageSpacing", args)
           \/ /\ trace' = [average_spacing |-> compute_average_spacing(points, nb_neighbors)]
              /\ Returned("computeAverageSpacing", args, FALSE)
        /\ UNCHANGED <<points, point_vectors, polyhedron>>

\* void estimateNormals(const PointList&, PointVectorList&, int nb_neighbors)
estimateNormals(nb_neighbors) ==
    LET args   == [nb_neighbors |-> nb_neighbors]
        copied == CopyPositions(Resize(point_vectors, Len(points)), points, 0)
    IN  /\ Forward("estimateNormals")
        /\ \/ /\ ~KnnPrecondition(points, nb_neighbors)
              /\ point_vectors' = copied
              /\ Thrown("estimateNormals", args)
           \/ \E normals \in [1..Len(points) -> Normals] :
                /\ point_vectors' = pca_estimate_normals(copied, normals)
                /\ trace' = [step |-> "estimated"]
                /\ Returned("estimateNormals", args, FALSE)
        /\ UNCHANGED <<points, polyhedron>>

\* void orientNormals(PointVectorList&, int nb_neighbors, bool trim)
orientNormals(nb_neighbors, trim) ==
    LET args == [nb_neighbors |-> nb_neighbors, trim |-> trim]
    IN  /\ Forward("orientNormals")
        \* on the cloud estimateNormals has just filled
        /\ call.op = "estimateNormals"
        /\ \/ /\ ~KnnPrecondition(Positions(point_vectors), nb_neighbors)
              /\ Thrown("orientNormals", args)
              /\ UNCHANGED point_vectors
           \/ \E unoriented \in OrientationOutcomes(point_vectors) :
                LET r == mst_orient_normals(point_vectors, unoriented)
                IN  /\ point_vectors' = Trim(r.range, r.first, trim)
                    /\ trace' = r
                    /\ Returned("orientNormals", args, FALSE)
        /\ UNCHANGED <<points, polyhedron>>

Next ==
    \/ \E k \in Neighbors, i \in Iters : smoothCloud(k, i)
    \/ \E p \in Percentages, k \in Neighbors : removeOutliers(p, k)
    \/ \E s \in CellSizes : simplifyCloud(s)
    \/ \E k \in Neighbors : computeAverageSpacing(k)
    \/ \E k \in Neighbors : estimateNormals(k)
    \/ \E k \in Neighbors, t \in BOOLEAN : orientNormals(k, t)

Spec == Init /\ [][Next]_vars

(***************************************************************************)
(* The reconstruction stage, on an oriented cloud of its own.              *)
(***************************************************************************)
OrientedClouds ==
    UNION {[1..n -> [first : Point_3, second : {1}]] : n \in 1..MaxLen}

\* The criteria a caller may want: angle, radius multiplier, distance
\* multiplier in thousandths.
Tunings == {[angle |-> 20, radius |-> 30, distance |-> 375],
            [angle |-> 30, radius |-> 10, distance |-> 250]}

InitPoisson ==
    /\ points = <<>>
    /\ point_vectors \in OrientedClouds
    /\ polyhedron = <<>>
    /\ call = NoCall
    /\ pre = [points |-> <<>>, point_vectors |-> point_vectors, polyhedron |-> <<>>]
    /\ trace = [step |-> "none"]

\* void reconstructPoissonSurface(PointVectorList&, Polyhedron_3&)
\*   wanted:    the criteria the caller wants; the function has no parameter
\*              that takes them
\*   converged: the value of function.compute_implicit_function()
\*   nv:        tr.number_of_vertices() after make_surface_mesh
reconstructPoissonSurface(wanted, converged, nv) ==
    LET args    == [wanted |-> wanted]
        pts     == convert(point_vectors)
        spacing == compute_average_spacing([i \in 1..Len(pts) |-> pts[i].position],
                                           spacing_knn)
    IN  /\ Len(point_vectors) > 0
        /\ Len(polyhedron) < MaxMeshes
        /\ pre' = Snapshot
        /\ UNCHANGED <<points, point_vectors>>
        /\ \/ /\ ~converged
              /\ trace' = [steps |-> <<"convert", "solve">>, converged |-> FALSE, nv |-> 0]
              /\ call' = [op |-> "reconstructPoissonSurface", args |-> args,
                          reported |-> VoidReturn("EXIT_FAILURE"), repeated |-> FALSE]
              /\ UNCHANGED polyhedron
           \/ /\ converged
              /\ nv = 0
              /\ trace' = [steps |-> <<"convert", "solve", "spacing", "surface", "refine">>,
                           converged |-> TRUE, nv |-> 0,
                           average_spacing |-> spacing, criteria |-> Criteria(spacing)]
              /\ call' = [op |-> "reconstructPoissonSurface", args |-> args,
                          reported |-> VoidReturn("EXIT_FAILURE"), repeated |-> FALSE]
              /\ UNCHANGED polyhedron
           \/ /\ converged
              /\ nv > 0
              /\ trace' = [steps |-> <<"convert", "solve", "spacing", "surface", "refine",
                                       "extract">>,
                           converged |-> TRUE, nv |-> nv,
                           average_spacing |-> spacing, criteria |-> Criteria(spacing)]
              /\ polyhedron' = output_surface_facets_to_polyhedron(polyhedron, nv)
              /\ call' = [op |-> "reconstructPoissonSurface", args |-> args,
                          reported |-> VoidReturn("void"), repeated |-> FALSE]

NextPoisson ==
    \E w \in Tunings, c \in BOOLEAN, nv \in 0..MaxVertices :
        reconstructPoissonSurface(w, c, nv)

SpecPoisson == InitPoisson /\ [][NextPoisson]_vars

(***************************************************************************)
(* Claims.                                                                 *)
(***************************************************************************)
Completed(op) == call.op = op /\ call.reported = "none"

\* round(p/100 * n), halves up.
Round(p, n) == (2 * p * n + 100) \div 200

OnePerCell(pts, s) ==
    \A i, j \in 1..Len(pts) : i # j => Cell(pts[i], s) # Cell(pts[j], s)

\* The call's parameters violate their documented domain.
DomainViolated ==
    \/ call.op = "removeOutliers" /\ call.args.nb_neighbors >= Len(pre.points)
    \/ call.op = "simplifyCloud" /\ call.args.cell_size <= 0
    \/ call.op = "smoothCloud"
       /\ (call.args.iter < 0 \/ call.args.nb_neighbors >= Len(pre.points))

\* C1: a call of removeOutliers, simplifyCloud or smoothCloud whose parameter
\* violates its domain (cell_size <= 0, nb_neighbors >= the number of points,
\* iter < 0) reports an error to the caller and leaves the cloud as it was.
C1_DomainViolationReported ==
    DomainViolated => call.reported # "none" /\ points = pre.points

\* C2: when the implicit-function solve does not converge, the caller observes
\* a reconstruction error, no later step runs, and the mesh and the oriented
\* cloud are as they were on entry.
C2_ConvergenceFailureReported ==
    (call.op = "reconstructPoissonSurface" /\ ~trace.converged) =>
        /\ call.reported # "none"
        /\ trace.steps = <<"convert", "solve">>
        /\ polyhedron = pre.polyhedron
        /\ point_vectors = pre.point_vectors

\* C3: when the refined triangulation has no vertex the caller gets an
\* empty-reconstruction error and the facets are not extracted; the mesh is
\* written only when the solve converged and there is at least one vertex.
C3_EmptyReconstructionReported ==
    call.op = "reconstructPoissonSurface" =>
        /\ (trace.converged /\ trace.nv = 0) =>
              /\ call.reported # "none"
              /\ \A i \in 1..Len(trace.steps) : trace.steps[i] # "extract"
        /\ polyhedron # pre.polyhedron => trace.converged /\ trace.nv >= 1

\* C4: removeOutliers leaves at most n points, and the number it removes is
\* within 1 of round(p/100 * n), for every cloud, p in 0..100 and k.
C4_RemovedCount ==
    Completed("removeOutliers") =>
        LET n       == Len(pre.points)
            removed == n - Len(points)
        IN  /\ Len(points) <= n
            /\ Abs(removed - Round(call.args.removed_percentage, n)) <= 1

C4_Witness ==
    /\ Completed("removeOutliers")
    /\ call.args.nb_neighbors >= 2
    /\ call.args.nb_neighbors < Len(pre.points)
    /\ Len(points) < Len(pre.points)
    /\ Len(points) > 0
    /\ Len(pre.points) - Len(points) # Round(call.args.removed_percentage, Len(pre.points))

\* C5 as claimed: after a stage that shrinks a cloud (called with parameters
\* in their domain), the cloud holds the input points the stage did not mark
\* for removal, in their input order.
C5_RetainedInInputOrder ==
    /\ (Completed("removeOutliers") /\ call.args.nb_neighbors >= 2) =>
          points = Pick(pre.points, Unmarked(trace))
    /\ (Completed("simplifyCloud") /\ call.args.cell_size > 0) =>
          points = Pick(pre.points, Unmarked(trace))
    /\ (Completed("orientNormals") /\ call.args.trim) =>
          Positions(point_vectors) = Pick(Positions(pre.point_vectors), Unmarked(trace))

\* C5 as amended: the cloud holds exactly the input points the stage did not
\* mark for removal (for removeOutliers, those with the lowest scores); they
\* are in input order after orientNormals with trim, and in the order the
\* primitive packed them (by score, by grid cell) after removeOutliers and
\* simplifyCloud.
C5_RetainedExactlyUnmarked ==
    /\ (Completed("removeOutliers") \/ Completed("simplifyCloud")) =>
          /\ BagOfSeq(points) = BagOfSeq(Pick(pre.points, Unmarked(trace)))
          /\ points = SubSeq(Pick(pre.points, trace.order), 1, trace.first - 1)
    /\ Completed("removeOutliers") =>
          \A i \in 1..Len(pre.points) : \A j \in Removed(trace) :
              i \notin Removed(trace) => trace.scores[i] <= trace.scores[j]
    /\ (Completed("orientNormals") /\ call.args.trim) =>
          Positions(point_vectors) = Pick(Positions(pre.point_vectors), Unmarked(trace))

C5_Witness ==
    /\ Completed("removeOutliers")
    /\ Len(points) >= 2
    /\ Len(points) < Len(pre.points)
    /\ points # Pick(pre.points, Unmarked(trace))

\* C6 as claimed: simplifyCloud applied with the same cell size s > 0 to its
\* own output yields the same cloud, same points in the same order, with at
\* most one point per cell.
C6_IdempotentSameOrder ==
    (Completed("simplifyCloud") /\ call.args.cell_size > 0) =>
        /\ OnePerCell(points, call.args.cell_size)
        /\ call.repeated => points = pre.points

\* C6 as amended: simplifyCloud applied with the same cell size s > 0 to its
\* own output yields the same points, one per cell, none removed; their order
\* is the one the grid's container gives and may differ.
C6_IdempotentSamePoints ==
    (Completed("simplifyCloud") /\ call.args.cell_size > 0) =>
        /\ OnePerCell(points, call.args.cell_size)
        /\ call.repeated =>
              /\ BagOfSeq(points) = BagOfSeq(pre.points)
              /\ Len(points) = Len(pre.points)

C6_Witness ==
    /\ Completed("simplifyCloud")
    /\ call.args.cell_size > 0
    /\ call.repeated
    /\ Len(points) >= 2
    /\ points # pre.points

\* C7: smoothCloud with iter >= 0 runs exactly iter passes and leaves the
\* number of points unchanged; with iter = 0 the cloud is unchanged.
C7_SmoothKeepsCount ==
    (call.op = "smoothCloud" /\ call.args.iter >= 0) =>
        /\ Len(points) = Len(pre.points)
        /\ call.reported = "none" => trace.passes = call.args.iter
        /\ call.args.iter = 0 => call.reported = "none" /\ points = pre.points

C7_Witness ==
    /\ Completed("smoothCloud")
    /\ call.args.iter >= 2
    /\ trace.passes = call.args.iter
    /\ Len(points) >= 2
    /\ points # pre.points

\* C8: orientNormals with trim leaves exactly the points before the first
\* unoriented point the algorithm reports, none of them unoriented, so no
\* more than it was given; without trim it leaves every input point.
C8_TrimErasesUnorientedSuffix ==
    Completed("orientNormals") =>
        IF call.args.trim
        THEN /\ point_vectors = SubSeq(trace.range, 1, trace.first - 1)
             /\ Len(point_vectors) <= Len(pre.point_vectors)
             /\ \A j \in 1..Len(point_vectors) : ~trace.unoriented[trace.order[j]]
             /\ Len(point_vectors) =
                   Cardinality({i \in 1..Len(pre.point_vectors) : ~trace.unoriented[i]})
        ELSE /\ Len(point_vectors) = Len(pre.point_vectors)
             /\ BagOfSeq(Positions(point_vectors)) = BagOfSeq(Positions(pre.point_vectors))

C8_Witness ==
    /\ Completed("orientNormals")
    /\ call.args.trim
    /\ call.args.nb_neighbors >= 2
    /\ Len(point_vectors) >= 1
    /\ Len(point_vectors) < Len(pre.point_vectors)

\* C9: after estimateNormals the oriented cloud is as long as the input cloud
\* and its i-th element carries the i-th input position, whatever the output
\* container held before; the input cloud is not modified.
C9_EstimateKeepsPositions ==
    call.op = "estimateNormals" =>
        /\ Len(point_vectors) = Len(points)
        /\ \A i \in 1..Len(points) : point_vectors[i].first = points[i]
        /\ points = pre.points

C9_Witness ==
    /\ Completed("estimateNormals")
    /\ Len(points) >= 2
    /\ Len(pre.point_vectors) # Len(points)
    /\ pre.point_vectors[1].first # points[1]

====
